---- MODULE Spec2Model ----
(***************************************************************************)
(* State-machine model of src/lambda_handler.py: the one-time secret       *)
(* service (create / retrieve / check) over a key-value vault.             *)
(*                                                                         *)
(* Every handler is a sequence of steps, one step per vault call, so that  *)
(* concurrent invocations interleave exactly at the vault calls.  Local    *)
(* computation (validation, encryption, decryption) is folded into the     *)
(* step of the vault call that precedes it.                                *)
(*                                                                         *)
(* Python values: None is <<>>, any other optional value x is <<x>>.       *)
(* Secret data is <<"pt", s>> for the text s and <<"enc", k, d>> for the   *)
(* data d encrypted under the key k.  A vault key is <<h, sfx>>: the name  *)
(* made of the uuid h followed by the suffixes of the sequence sfx, so     *)
(* that f"{uuid}-metadata" appends "-metadata" to sfx.                     *)
(*                                                                         *)
(* The two maintenance scripts of the repository are modelled next to the  *)
(* service, each over variables of its own: shard_payloads of              *)
(* src/bundle_repo_secrets.py and main of src/remove_repo_secrets.py.      *)
(***************************************************************************)
EXTENDS Integers, Sequences, FiniteSets, TLC

\* ---------------------------------------------------------------- bounds
NumHandles == 1
MaxTime == 2
MaxFaults == 1
MaxBytes == 50
MaxNames == 2

Procs == {"p1", "p2"}
Handles == 1..NumHandles

None == <<>>
Some(x) == <<x>>

\* ------------------------------------------------------- Python built-ins
Digits == <<"0", "1", "2", "3", "4", "5", "6", "7", "8", "9">>

\* str(n) of an integer: its decimal digits, "-" first when negative.
RECURSIVE str(_)
str(n) ==
    IF n < 0 THEN "-" \o str(0 - n)
    ELSE IF n < 10 THEN Digits[n + 1]
    ELSE str(n \div 10) \o Digits[(n % 10) + 1]

\* The integers a timestamp of the model can be.
IntRange == (0 - MaxTime - 2)..(MaxTime + 2)

\* int(s) of a string: Some(n) for the decimal rendering of n, None for the
\* ValueError of any other string.
int(s) ==
    IF \E n \in IntRange : str(n) = s
    THEN Some(CHOOSE n \in IntRange : str(n) = s)
    ELSE None

\* Text as stored and returned: every vault value is a Python string.
Text(s) == <<"pt", s>>

\* ------------------------------------------------------- collaborators
\* acido.utils.crypto_utils, by its contract: decrypt fails (ValueError) on a
\* wrong key and on data that is no ciphertext.
encrypt_secret(data, key) == <<"enc", key, data>>

decrypt_secret(data, key) ==
    IF Len(data) = 3 /\ data[1] = "enc" /\ data[2] = key
    THEN Some(data[3])
    ELSE None

is_encrypted(data) == Len(data) = 3 /\ data[1] = "enc"

\* A vault key: the uuid followed by a suffix, f"{secret_uuid}-metadata".
KeyOf(uuid, suffix) == <<uuid[1], Append(uuid[2], suffix)>>

\* VaultManager, by its contract: get and delete fail on an absent key.
secret_exists(vault, key) == key \in DOMAIN vault

get_secret(vault, key) == IF key \in DOMAIN vault THEN Some(vault[key]) ELSE None

set_secret(vault, key, value) ==
    [k \in DOMAIN vault \cup {key} |-> IF k = key THEN value ELSE vault[k]]

delete_secret(vault, key) == [k \in DOMAIN vault \ {key} |-> vault[k]]

\* build_response / build_error_response: the status and the body's fields.
build_response(status, error) ==
    [status |-> status, error |-> error, secret |-> None, uuid |-> None,
     expires_at |-> None, requires_password |-> None, expired_at |-> None]

build_error_response(error) == build_response(400, error)

\* Cloudflare's verdict on a Turnstile token.
validate_turnstile(token) == token = "ok"

\* ---------------------------------------------------------- pure helpers
\* Python truthiness of a request field: None, "" and 0 are falsy.
Truthy(v) == v # None /\ v # Some("")

TruthyNumber(v) ==
    /\ v # None
    /\ ~(v[1] = "int" /\ v[2] = 0)
    /\ ~(v[1] = "str" /\ v[2] = "")

\* Mutant: an expires_at equal to the current second is accepted.
ValidateExpirationNotPast(expires_at, clock) ==
    IF ~TruthyNumber(expires_at)
    THEN [unix |-> None, error |-> None]
    ELSE LET parsed == IF expires_at[1] = "int" THEN Some(expires_at[2])
                       ELSE int(expires_at[2])
         IN  IF parsed = None
             THEN [unix |-> None,
                   error |-> Some(build_error_response("Invalid expires_at format"))]
             ELSE IF parsed[1] < clock
             THEN [unix |-> None,
                   error |-> Some(build_error_response("expires_at must be in the future"))]
             ELSE [unix |-> parsed, error |-> None]

_validate_expiration_time(expires_at, clock) ==
    IF ~TruthyNumber(expires_at)
    THEN [unix |-> None, error |-> None]
    ELSE LET parsed == IF expires_at[1] = "int" THEN Some(expires_at[2])
                       ELSE int(expires_at[2])
         IN  IF parsed = None
             THEN [unix |-> None,
                   error |-> Some(build_error_response("Invalid expires_at format"))]
             ELSE IF parsed[1] <= clock
             THEN [unix |-> None,
                   error |-> Some(build_error_response("expires_at must be in the future"))]
             ELSE [unix |-> parsed, error |-> None]

\* Mutant: an unset SECRET_KEY is used as the empty key.
EncryptWithUnsetKey(data, secret_key) ==
    Some(encrypt_secret(data, IF secret_key = None THEN "" ELSE secret_key[1]))

\* None stands for the ValueError of an unset SECRET_KEY.
_encrypt_with_secret_key(data, secret_key) ==
    IF ~Truthy(secret_key) THEN None
    ELSE Some(encrypt_secret(data, secret_key[1]))

_decrypt_with_secret_key(data, secret_key) ==
    IF ~Truthy(secret_key) THEN None
    ELSE decrypt_secret(data, secret_key[1])

\* Mutant: the system-key layer applied first, the password layer outermost.
EncryptSystemKeyFirst(secret_value, password, secret_key) ==
    LET first == _encrypt_with_secret_key(secret_value, secret_key)
    IN  IF first = None
        THEN [value |-> None, type |-> None,
              error |-> Some(build_response(500, "System encryption failed"))]
        ELSE IF Truthy(password)
        THEN [value |-> Some(encrypt_secret(first[1], password[1])),
              type |-> Some("secret_key_password_encrypted"), error |-> None]
        ELSE [value |-> first, type |-> Some("secret_key_encrypted"),
              error |-> None]

\* Mutant: the layers of the earlier version, the password layer alone under
\* the tag "encrypted", no layer under the tag "plaintext".
EncryptLayersPasswordOnly(secret_value, password, secret_key) ==
    IF Truthy(password)
    THEN [value |-> Some(encrypt_secret(secret_value, password[1])),
          type |-> Some("encrypted"), error |-> None]
    ELSE [value |-> Some(secret_value), type |-> Some("plaintext"),
          error |-> None]

_encrypt_secret_layers(secret_value, password, secret_key) ==
    LET first  == IF Truthy(password)
                  THEN encrypt_secret(secret_value, password[1])
                  ELSE secret_value
        type   == IF Truthy(password)
                  THEN "secret_key_password_encrypted"
                  ELSE "secret_key_encrypted"
        second == _encrypt_with_secret_key(first, secret_key)
    IN  IF second = None
        THEN [value |-> None, type |-> None,
              error |-> Some(build_response(500, "System encryption failed"))]
        ELSE [value |-> second, type |-> Some(type), error |-> None]

PasswordLayer(secret_value, password) ==
    IF ~Truthy(password)
    THEN [value |-> None,
          error |-> Some(build_response(400, "Password required for encrypted secret"))]
    ELSE LET plain == decrypt_secret(secret_value, password[1])
         IN  IF plain = None
             THEN [value |-> None,
                   error |-> Some(build_response(400, "Decryption failed"))]
             ELSE [value |-> plain, error |-> None]

\* Mutant: a failure of the system-key layer reported as the caller's, like
\* a failure of the password layer.
DecryptLayersKeyFaultAsUser(secret_value, encryption_type, password, secret_key) ==
    IF encryption_type \in {Some(Text("secret_key_encrypted")),
                            Some(Text("secret_key_password_encrypted"))}
    THEN LET inner == _decrypt_with_secret_key(secret_value, secret_key)
         IN  IF inner = None
             THEN [value |-> None,
                   error |-> Some(build_response(400, "Decryption failed"))]
             ELSE IF encryption_type = Some(Text("secret_key_password_encrypted"))
             THEN PasswordLayer(inner[1], password)
             ELSE [value |-> inner, error |-> None]
    ELSE IF encryption_type = Some(Text("encrypted"))
    THEN PasswordLayer(secret_value, password)
    ELSE IF encryption_type = Some(Text("plaintext"))
    THEN [value |-> Some(secret_value), error |-> None]
    ELSE IF is_encrypted(secret_value)
    THEN PasswordLayer(secret_value, password)
    ELSE [value |-> Some(secret_value), error |-> None]

\* Mutant: the legacy tags are not told apart, the system-key layer is
\* removed from every tagged record.
DecryptLayersNoLegacy(secret_value, encryption_type, password, secret_key) ==
    IF encryption_type # None
    THEN LET inner == _decrypt_with_secret_key(secret_value, secret_key)
         IN  IF inner = None
             THEN [value |-> None,
                   error |-> Some(build_response(500, "System decryption failed"))]
             ELSE IF encryption_type \in {Some(Text("secret_key_password_encrypted")),
                                          Some(Text("encrypted"))}
             THEN PasswordLayer(inner[1], password)
             ELSE [value |-> inner, error |-> None]
    ELSE IF is_encrypted(secret_value)
    THEN PasswordLayer(secret_value, password)
    ELSE [value |-> Some(secret_value), error |-> None]

_decrypt_secret_layers(secret_value, encryption_type, password, secret_key) ==
    IF encryption_type \in {Some(Text("secret_key_encrypted")),
                            Some(Text("secret_key_password_encrypted"))}
    THEN LET inner == _decrypt_with_secret_key(secret_value, secret_key)
         IN  IF inner = None
             THEN [value |-> None,
                   error |-> Some(build_response(500, "System decryption failed"))]
             ELSE IF encryption_type = Some(Text("secret_key_password_encrypted"))
             THEN PasswordLayer(inner[1], password)
             ELSE [value |-> inner, error |-> None]
    ELSE IF encryption_type = Some(Text("encrypted"))
    THEN PasswordLayer(secret_value, password)
    ELSE IF encryption_type = Some(Text("plaintext"))
    THEN [value |-> Some(secret_value), error |-> None]
    ELSE IF is_encrypted(secret_value)
    THEN PasswordLayer(secret_value, password)
    ELSE [value |-> Some(secret_value), error |-> None]

\* ------------------------------------------------------------------ state
VARIABLES
    store,      \* the vault: a function from the keys present to their values
    now,        \* the clock, in whole seconds
    environ,    \* os.environ.get('SECRET_KEY'): None when unset
    active,     \* the invocations the deployment runs at a time
    faults,     \* transient vault failures still to come
    events,     \* the events the callers send
    pc,         \* per invocation: the vault call it is about to make
    req,        \* per invocation: the event; history: whether it came late,
                \* and the failures still to come when it arrived (budget)
    loc,        \* per invocation: the handler's local variables
    result,     \* per invocation: the response, once pc is "done"
    nextUuid,   \* uuid.uuid4(): the next value never returned before
    created,    \* history: per uuid, what create was given, and whether
                \* its expiry was after the clock when it was validated
    delivered,  \* history: the uuids whose secret a response has carried
    expired,    \* history: the uuids a response has reported Expired
    before,     \* history: per invocation, the vault when it was invoked
    grouped,    \* bundle_repo_secrets: per region, its entries
    max_bytes,  \* bundle_repo_secrets: --max-bytes
    sharded,    \* bundle_repo_secrets: what shard_payloads returned or raised
    names,      \* remove_repo_secrets: the names of the input, in order
    protect_patterns, \* remove_repo_secrets: the patterns of --protect
    dry_run,    \* remove_repo_secrets: --dry-run
    repo,       \* remove_repo_secrets: the secrets of the GitHub repository
    existing,   \* remove_repo_secrets: what `gh secret list` returned
    to_remove,  \* remove_repo_secrets: the names still to remove, in order
    commands    \* history: the names `gh secret remove` was run for, in order

lambdaVars == <<store, now, environ, active, faults, events, pc, req, loc, result,
                nextUuid, created, delivered, expired, before>>

bundleVars == <<grouped, max_bytes, sharded>>

removeVars == <<names, protect_patterns, dry_run, repo, existing, to_remove,
                commands>>

scriptVars == <<bundleVars, removeVars>>

vars == <<lambdaVars, scriptVars>>

SystemKey == "K"

\* The uuid a handle is rendered as, and the three keys of its record.
Uuid(h) == <<h, <<>>>>
IsUuid(name) == name[2] = <<>>
MetadataKey(uuid) == KeyOf(uuid, "-metadata")
ExpiresKey(uuid) == KeyOf(uuid, "-expires")

NoRequest ==
    [action |-> "", secret |-> None, password |-> None, expires_at |-> None,
     uuid |-> None, turnstile_token |-> None, method |-> "",
     late |-> FALSE, budget |-> 0]

NoLocals ==
    [uuid |-> None, value |-> None, type |-> None, unix |-> None,
     within |-> "", requires_password |-> FALSE]

EmptyVault == [k \in {} |-> None]

\* ----------------------------------------------------------------- inputs
Secrets == {"s1", "s2"}

CreatePasswords == {None, Some(""), Some("pw")}

RetrievePasswords == {None, Some(""), Some("pw"), Some("bad")}

ExpiresInputs ==
    {None, <<"str", "">>, <<"str", "abc">>, <<"str", str(MaxTime)>>}
        \cup {<<"int", n>> : n \in (0 - 1)..MaxTime}

Event(action, secret, password, expires_at, uuid) ==
    [action |-> action, secret |-> secret, password |-> password,
     expires_at |-> expires_at, uuid |-> uuid,
     turnstile_token |-> Some("ok"), method |-> "POST"]

\* The create events: every password and expires_at with a secret, and the
\* secret absent or empty.
CreateEvents ==
    {Event("create", Some(s), q, e, None) :
        s \in Secrets, q \in CreatePasswords, e \in ExpiresInputs}
    \cup {Event("create", s, None, e, None) :
            s \in {None, Some("")}, e \in {None, <<"int", MaxTime>>}}

\* A retrieve may name any string: a handle, or a handle followed by one of
\* the suffixes the record's other keys carry; or none.
DerivedNames ==
    {<<h, sfx>> : h \in Handles, sfx \in {<<"-metadata">>, <<"-expires">>}}

RetrieveEvents ==
    {Event("retrieve", None, q, None, Some(Uuid(h))) :
        h \in Handles, q \in RetrievePasswords}
    \cup {Event("retrieve", None, None, None, Some(n)) : n \in DerivedNames}
    \cup {Event("retrieve", None, None, None, None)}

CheckEvents ==
    {Event("check", None, None, None, Some(Uuid(h))) : h \in Handles}
    \cup {Event("check", None, None, None, None)}

AllEvents == CreateEvents \cup RetrieveEvents \cup CheckEvents

\* The well-formed events on handles: what runs over a failing vault.
CoreEvents ==
    {Event("create", Some("s1"), q, e, None) :
        q \in {None, Some("pw")}, e \in {None, <<"int", MaxTime>>}}
    \cup {Event("retrieve", None, q, None, Some(Uuid(h))) :
            h \in Handles, q \in {None, Some("pw"), Some("bad")}}
    \cup {Event("check", None, None, None, Some(Uuid(h))) : h \in Handles}

\* What two callers race with: a password-protected secret, with and without
\* expiry; its retrieve with the right password; its check.
RaceEvents ==
    {Event("create", Some("s1"), Some("pw"), e, None) :
        e \in {None, <<"int", MaxTime>>}}
    \cup {Event("retrieve", None, Some("pw"), None, Some(Uuid(h))) :
            h \in Handles}
    \cup {Event("check", None, None, None, Some(Uuid(h))) : h \in Handles}

\* A record written by an earlier version of the service, which tagged the
\* payload "plaintext" or "encrypted" (password layer alone), or wrote no tag.
LegacyUuid == <<0, <<>>>>

LegacyRecords ==
    {[payload |-> Text("old"), tag |-> Some("plaintext")],
     [payload |-> Text("old"), tag |-> None],
     [payload |-> encrypt_secret(Text("old"), "pw"), tag |-> Some("encrypted")],
     [payload |-> encrypt_secret(Text("old"), "pw"), tag |-> None]}

LegacyVault(record) ==
    LET payload == set_secret(EmptyVault, LegacyUuid, record.payload)
    IN  IF record.tag = None THEN payload
        ELSE set_secret(payload, MetadataKey(LegacyUuid), Text(record.tag[1]))

\* What the callers of a deployment that holds a legacy record send: creates
\* with and without password, expiry and secret, retrieves and checks of the
\* new handles, of the names derived from them and of the legacy record.
DeploymentEvents ==
    {Event("create", Some("s1"), None, None, None),
     Event("create", Some("s1"), Some("pw"), None, None),
     Event("create", Some("s1"), None, <<"int", MaxTime>>, None),
     Event("create", None, None, None, None)}
    \cup {Event("retrieve", None, q, None, Some(Uuid(h))) :
            h \in Handles, q \in {None, Some("pw"), Some("bad")}}
    \cup {Event("retrieve", None, None, None, Some(n)) : n \in DerivedNames}
    \cup {Event("retrieve", None, None, None, None)}
    \cup {Event("check", None, None, None, Some(Uuid(h))) : h \in Handles}
    \cup {Event("retrieve", None, q, None, Some(LegacyUuid)) :
            q \in {None, Some("pw"), Some("bad")}}
    \cup {Event("check", None, None, None, Some(LegacyUuid))}

\* The body that parse_lambda_event makes of a request without fields; in
\* an event, the action "" stands for an absent action.
EmptyEvent ==
    [Event("", None, None, None, None) EXCEPT !.turnstile_token = None]

\* What does not pass the gates of lambda_handler, or passes them without a
\* token: the preflight, the empty body, the healthcheck, a missing and an
\* unknown action, and the three actions with the token missing, empty or
\* rejected by Turnstile.
GateEvents ==
    {EmptyEvent}
    \cup {[Event(a, None, None, None, None) EXCEPT !.turnstile_token = t] :
            a \in {"", "delete", "healthcheck"}, t \in {None, Some("ok")}}
    \cup {[e EXCEPT !.turnstile_token = t] :
            e \in RaceEvents, t \in {None, Some(""), Some("bad")}}
    \cup {[e EXCEPT !.method = "OPTIONS", !.turnstile_token = None] :
            e \in RaceEvents}

FaultChoices == IF faults > 0 THEN {FALSE, TRUE} ELSE {FALSE}

\* ------------------------------------------------------------------- steps
Continue(p, vault, label, locals, fault) ==
    /\ store' = vault
    /\ pc' = [pc EXCEPT ![p] = label]
    /\ loc' = [loc EXCEPT ![p] = locals]
    /\ faults' = IF fault THEN faults - 1 ELSE faults
    /\ UNCHANGED scriptVars
    /\ UNCHANGED <<now, environ, active, events, req, result, nextUuid, created,
                   delivered, expired, before>>

Return(p, vault, response, fault) ==
    /\ store' = vault
    /\ pc' = [pc EXCEPT ![p] = "done"]
    /\ result' = [result EXCEPT ![p] = response]
    /\ faults' = IF fault THEN faults - 1 ELSE faults
    /\ UNCHANGED scriptVars
    /\ UNCHANGED <<now, environ, active, events, req, loc, nextUuid, created,
                   delivered, expired, before>>

\* The except clause of lambda_handler: any exception becomes a 500.
Exception(p, fault) == Return(p, store, build_response(500, "Exception"), fault)

\* The stored expiry as _check_expiration and _get_expiration_info read it:
\* None when the key is absent, the call fails or the value is no integer.
StoredExpiry(vault, uuid, fault) ==
    LET got == IF fault THEN None ELSE get_secret(vault, ExpiresKey(uuid))
    IN  IF got = None THEN None
        ELSE IF got[1][1] = "pt" THEN int(got[1][2])
        ELSE None

\* The integer an expires_at field denotes: None when it is no integer.
Denoted(expires_at) ==
    IF expires_at[1] = "int" THEN Some(expires_at[2]) ELSE int(expires_at[2])

\* History: the event arrives late when the instant it is about is not after
\* the clock: the expires_at of a create, the stored expiry of the key that
\* a retrieve or check names.
Late(event) ==
    LET instant == IF event.action = "create"
                   THEN IF event.expires_at = None THEN None
                        ELSE Denoted(event.expires_at)
                   ELSE IF event.uuid = None THEN None
                   ELSE StoredExpiry(store, event.uuid[1], FALSE)
    IN  instant # None /\ instant[1] <= now

_handle_healthcheck == build_response(200, "")

\* if not action or action not in ['create', 'retrieve', 'check']
_validate_action(action) ==
    IF action = "" \/ action \notin {"create", "retrieve", "check"}
    THEN Some(build_error_response("Invalid or missing action"))
    ELSE None

\* Mutant: a token that is present is not submitted to Turnstile.
ValidateTurnstilePresence(event) ==
    IF ~Truthy(event.turnstile_token)
    THEN Some(build_error_response("Missing required field: turnstile_token"))
    ELSE None

_validate_turnstile(event) ==
    IF ~Truthy(event.turnstile_token)
    THEN Some(build_error_response("Missing required field: turnstile_token"))
    ELSE IF ~validate_turnstile(event.turnstile_token[1])
    THEN Some(build_response(403, "Invalid or expired Turnstile token"))
    ELSE None

\* lambda_handler before it constructs the VaultManager: the response of the
\* gate that stops the event, None when the event passes all of them.
RequestGate(event) ==
    IF event.method = "OPTIONS" THEN Some(build_response(200, ""))
    ELSE IF event = EmptyEvent
    THEN Some(build_error_response("Missing event body"))
    ELSE IF event.action = "healthcheck" THEN Some(_handle_healthcheck)
    ELSE IF _validate_action(event.action) # None
    THEN _validate_action(event.action)
    ELSE _validate_turnstile(event)

\* lambda_handler: an event arrives, passes the gates or is answered by one
\* of them, and is dispatched to its handler.
Invoke(p) ==
    /\ pc[p] = "idle"
    /\ p \in active
    /\ \E event \in events :
          /\ event.action = "create" => nextUuid <= NumHandles
          /\ req' = [req EXCEPT ![p] =
                        [action |-> event.action, secret |-> event.secret,
                         password |-> event.password,
                         expires_at |-> event.expires_at,
                         uuid |-> event.uuid,
                         turnstile_token |-> event.turnstile_token,
                         method |-> event.method, late |-> Late(event),
                         budget |-> faults]]
          /\ pc' = [pc EXCEPT ![p] =
                       IF RequestGate(event) = None THEN "start" ELSE "done"]
          /\ result' = IF RequestGate(event) = None THEN result
                       ELSE [result EXCEPT ![p] = RequestGate(event)[1]]
    /\ before' = [before EXCEPT ![p] = store]
    /\ UNCHANGED scriptVars
    /\ UNCHANGED <<store, now, environ, active, faults, events, loc, nextUuid,
                   created, delivered, expired>>

\* Mutant: only an absent secret is refused, an empty one is stored.
MissingSecretNoneOnly(secret_value) == secret_value = None

\* if not secret_value
MissingSecret(secret_value) == ~Truthy(secret_value)

\* _handle_create_secret up to its first vault call: validation, uuid4 and
\* encryption.
CreateStart(p) ==
    /\ pc[p] = "start"
    /\ req[p].action = "create"
    /\ LET event   == req[p]
           checked == _validate_expiration_time(event.expires_at, now)
           uuid    == Uuid(nextUuid)
           layers  == _encrypt_secret_layers(
                          Text(IF event.secret = None THEN "" ELSE event.secret[1]),
                          event.password, environ)
           failed  == IF MissingSecret(event.secret)
                      THEN Some(build_error_response("Missing required field: secret"))
                      ELSE IF checked.error # None THEN checked.error
                      ELSE layers.error
           drawn   == ~MissingSecret(event.secret) /\ checked.error = None
       IN  /\ nextUuid' = IF drawn THEN nextUuid + 1 ELSE nextUuid
           /\ created' = IF drawn
                         THEN [created EXCEPT ![nextUuid] =
                                 Some([secret |-> IF event.secret = None THEN ""
                                                  ELSE event.secret[1],
                                       password |-> event.password,
                                       unix |-> checked.unix,
                                       future |-> \/ checked.unix = None
                                                  \/ checked.unix[1] > now])]
                         ELSE created
           /\ pc' = [pc EXCEPT ![p] = IF failed = None THEN "set_payload" ELSE "done"]
           /\ result' = IF failed = None THEN result
                        ELSE [result EXCEPT ![p] = failed[1]]
           /\ loc' = [loc EXCEPT ![p] =
                        IF failed = None
                        THEN [NoLocals EXCEPT !.uuid = Some(uuid),
                                              !.value = layers.value,
                                              !.type = layers.type,
                                              !.unix = checked.unix]
                        ELSE NoLocals]
    /\ UNCHANGED scriptVars
    /\ UNCHANGED <<store, now, environ, active, faults, events, req, delivered,
                   expired, before>>

\* _store_secret_with_metadata, one vault call after the other.
SetPayload(p) ==
    /\ pc[p] = "set_payload"
    /\ \E fault \in FaultChoices :
          IF fault THEN Exception(p, fault)
          ELSE Continue(p, set_secret(store, loc[p].uuid[1], loc[p].value[1]),
                        "set_metadata", loc[p], fault)

Created(p) ==
    [build_response(201, "") EXCEPT !.uuid = loc[p].uuid,
                                    !.expires_at = loc[p].unix]

\* Mutant: the tag's write is best-effort, its failure is passed over.
SetMetadataBestEffort(p) ==
    /\ pc[p] = "set_metadata"
    /\ \E fault \in FaultChoices :
          LET vault == IF fault THEN store
                       ELSE set_secret(store, MetadataKey(loc[p].uuid[1]),
                                       Text(loc[p].type[1]))
          IN  IF loc[p].unix # None /\ loc[p].unix[1] # 0
              THEN Continue(p, vault, "set_expires", loc[p], fault)
              ELSE Return(p, vault, Created(p), fault)

SetMetadata(p) ==
    /\ pc[p] = "set_metadata"
    /\ \E fault \in FaultChoices :
          LET vault == set_secret(store, MetadataKey(loc[p].uuid[1]),
                                  Text(loc[p].type[1]))
          IN  IF fault THEN Exception(p, fault)
              ELSE IF loc[p].unix # None /\ loc[p].unix[1] # 0
              THEN Continue(p, vault, "set_expires", loc[p], fault)
              ELSE Return(p, vault, Created(p), fault)

SetExpires(p) ==
    /\ pc[p] = "set_expires"
    /\ \E fault \in FaultChoices :
          IF fault THEN Exception(p, fault)
          ELSE Return(p, set_secret(store, ExpiresKey(loc[p].uuid[1]),
                                    Text(str(loc[p].unix[1]))),
                      Created(p), fault)

\* _handle_retrieve_secret and _handle_check_secret up to the existence check.
Exists(p) ==
    /\ pc[p] = "start"
    /\ req[p].action \in {"retrieve", "check"}
    /\ \E fault \in FaultChoices :
          IF ~Truthy(req[p].uuid)
          THEN Return(p, store, build_error_response("Missing required field: uuid"), FALSE)
          ELSE IF fault THEN Exception(p, fault)
          ELSE IF ~secret_exists(store, req[p].uuid[1])
          THEN Return(p, store,
                      build_response(404, "Secret not found or already accessed"),
                      fault)
          ELSE Continue(p, store, "expires",
                        [NoLocals EXCEPT !.uuid = req[p].uuid], fault)

\* Where the handler goes on when _check_expiration returns None.
AfterExpiration(p) ==
    IF req[p].action = "retrieve" THEN "get_metadata" ELSE "check_metadata"

\* Mutant: now > expires_at
IsExpiredStrictly(unix, clock) == clock > unix

\* now >= expires_at
IsExpired(unix, clock) == clock >= unix

\* _check_expiration up to the comparison with the clock.
CheckExpiration(p) ==
    /\ pc[p] = "expires"
    /\ \E fault \in FaultChoices :
          LET unix == StoredExpiry(store, loc[p].uuid[1], fault)
          IN  IF unix # None /\ IsExpired(unix[1], now)
              THEN Continue(p, store, "delete_payload",
                            [loc[p] EXCEPT !.unix = unix,
                                           !.within = "_check_expiration"],
                            fault)
              ELSE Continue(p, store, AfterExpiration(p), loc[p], fault)

\* Mutant: the payload is left in the vault.
DeletePayloadSkipped(p) ==
    /\ pc[p] = "delete_payload"
    /\ Continue(p, store, "delete_metadata", loc[p], FALSE)

\* Mutant: the payload's delete guarded like the other two.
DeletePayloadGuarded(p) ==
    /\ pc[p] = "delete_payload"
    /\ Continue(p, IF secret_exists(store, loc[p].uuid[1])
                   THEN delete_secret(store, loc[p].uuid[1]) ELSE store,
                "delete_metadata", loc[p], FALSE)

\* Mutant: a failed delete of the payload is passed over, as for the other
\* two keys.
DeletePayloadBestEffort(p) ==
    /\ pc[p] = "delete_payload"
    /\ \E fault \in FaultChoices :
          Continue(p, IF fault \/ ~secret_exists(store, loc[p].uuid[1])
                      THEN store ELSE delete_secret(store, loc[p].uuid[1]),
                   "delete_metadata", loc[p], fault)

\* _delete_secret_and_metadata: the payload's delete is not guarded, so its
\* failure is an exception of the caller: swallowed by the except clause of
\* _check_expiration, raised to lambda_handler from _handle_retrieve_secret.
DeletePayload(p) ==
    /\ pc[p] = "delete_payload"
    /\ \E fault \in FaultChoices :
          IF fault \/ ~secret_exists(store, loc[p].uuid[1])
          THEN IF loc[p].within = "_check_expiration"
               THEN Continue(p, store, AfterExpiration(p),
                             [loc[p] EXCEPT !.unix = None, !.within = ""], fault)
               ELSE Exception(p, fault)
          ELSE Continue(p, delete_secret(store, loc[p].uuid[1]),
                        "delete_metadata", loc[p], fault)

\* A guarded delete: try: delete_secret(key) except Exception: pass.
GuardedDelete(vault, key, fault) ==
    IF fault \/ ~secret_exists(vault, key) THEN vault ELSE delete_secret(vault, key)

DeleteMetadata(p) ==
    /\ pc[p] = "delete_metadata"
    /\ \E fault \in FaultChoices :
          Continue(p, GuardedDelete(store, MetadataKey(loc[p].uuid[1]), fault),
                   "delete_expires", loc[p], fault)

Expired(p) ==
    [build_response(410, "Secret has expired and has been deleted")
        EXCEPT !.expired_at = loc[p].unix]

Retrieved(p) ==
    [build_response(200, "") EXCEPT !.secret = loc[p].value]

\* Mutant: the delete of the -expires key not guarded, like the payload's.
DeleteExpiresUnguarded(p) ==
    /\ pc[p] = "delete_expires"
    /\ IF ~secret_exists(store, ExpiresKey(loc[p].uuid[1]))
       THEN IF loc[p].within = "_check_expiration"
            THEN Continue(p, store, AfterExpiration(p),
                          [loc[p] EXCEPT !.unix = None, !.within = ""], FALSE)
            ELSE Exception(p, FALSE)
       ELSE Return(p, delete_secret(store, ExpiresKey(loc[p].uuid[1])),
                   IF loc[p].within = "_check_expiration" THEN Expired(p)
                   ELSE Retrieved(p),
                   FALSE)

DeleteExpires(p) ==
    /\ pc[p] = "delete_expires"
    /\ \E fault \in FaultChoices :
          Return(p, GuardedDelete(store, ExpiresKey(loc[p].uuid[1]), fault),
                 IF loc[p].within = "_check_expiration" THEN Expired(p)
                 ELSE Retrieved(p),
                 fault)

\* _get_encryption_metadata: None when the read fails.
_get_encryption_metadata(vault, uuid, fault) ==
    IF fault THEN None ELSE get_secret(vault, MetadataKey(uuid))

GetMetadata(p) ==
    /\ pc[p] = "get_metadata"
    /\ \E fault \in FaultChoices :
          Continue(p, store, "get_payload",
                   [loc[p] EXCEPT !.type =
                       _get_encryption_metadata(store, loc[p].uuid[1], fault)],
                   fault)

\* Mutant: the record is deleted as soon as it is read, before decryption.
GetPayloadDeleteFirst(p) ==
    /\ pc[p] = "get_payload"
    /\ LET got == get_secret(store, loc[p].uuid[1])
       IN  IF got = None THEN Exception(p, FALSE)
           ELSE LET plain == _decrypt_secret_layers(got[1], loc[p].type,
                                                    req[p].password, environ)
                IN  IF plain.error # None
                    THEN Return(p, delete_secret(store, loc[p].uuid[1]),
                                plain.error[1], FALSE)
                    ELSE Continue(p, store, "delete_payload",
                                  [loc[p] EXCEPT !.value = plain.value,
                                                 !.within = "_handle_retrieve_secret"],
                                  FALSE)

\* Mutant: a failed decryption burns the payload.
GetPayloadBurnOnFailure(p) ==
    /\ pc[p] = "get_payload"
    /\ LET got == get_secret(store, loc[p].uuid[1])
       IN  IF got = None THEN Exception(p, FALSE)
           ELSE LET plain == _decrypt_secret_layers(got[1], loc[p].type,
                                                    req[p].password, environ)
                IN  IF plain.error # None
                    THEN Return(p,
                                IF plain.error[1].error = "Decryption failed"
                                THEN delete_secret(store, loc[p].uuid[1])
                                ELSE store,
                                plain.error[1], FALSE)
                    ELSE Continue(p, store, "delete_payload",
                                  [loc[p] EXCEPT !.value = plain.value,
                                                 !.within = "_handle_retrieve_secret"],
                                  FALSE)

\* _handle_retrieve_secret: the payload's read, then the decryption.
GetPayload(p) ==
    /\ pc[p] = "get_payload"
    /\ \E fault \in FaultChoices :
          LET got == IF fault THEN None ELSE get_secret(store, loc[p].uuid[1])
          IN  IF got = None THEN Exception(p, fault)
              ELSE LET plain == _decrypt_secret_layers(got[1], loc[p].type,
                                                       req[p].password, environ)
                   IN  IF plain.error # None
                       THEN Return(p, store, plain.error[1], fault)
                       ELSE Continue(p, store, "delete_payload",
                                     [loc[p] EXCEPT !.value = plain.value,
                                                    !.within = "_handle_retrieve_secret"],
                                     fault)

\* Mutant: the two current tags exchanged.
RequiresPasswordSwapped(metadata_value) ==
    IF metadata_value \in {Some(Text("encrypted")),
                           Some(Text("secret_key_encrypted"))}
    THEN Some(TRUE)
    ELSE IF metadata_value \in {Some(Text("plaintext")),
                                Some(Text("secret_key_password_encrypted"))}
    THEN Some(FALSE)
    ELSE None

\* _check_password_requirement on the tag: Some(answer) for a known tag,
\* None when the payload has to decide.
RequiresPassword(metadata_value) ==
    IF metadata_value \in {Some(Text("encrypted")),
                           Some(Text("secret_key_password_encrypted"))}
    THEN Some(TRUE)
    ELSE IF metadata_value \in {Some(Text("plaintext")),
                                Some(Text("secret_key_encrypted"))}
    THEN Some(FALSE)
    ELSE None

CheckMetadata(p) ==
    /\ pc[p] = "check_metadata"
    /\ \E fault \in FaultChoices :
          LET metadata_value == _get_encryption_metadata(store, loc[p].uuid[1], fault)
              known == RequiresPassword(metadata_value)
          IN  IF known # None
              THEN Continue(p, store, "check_expires",
                            [loc[p] EXCEPT !.requires_password = known[1]], fault)
              ELSE Continue(p, store, "check_payload", loc[p], fault)

\* _check_password_requirement: the heuristic on the payload otherwise.
CheckPayload(p) ==
    /\ pc[p] = "check_payload"
    /\ \E fault \in FaultChoices :
          LET got == IF fault THEN None ELSE get_secret(store, loc[p].uuid[1])
          IN  Continue(p, store, "check_expires",
                       [loc[p] EXCEPT !.requires_password =
                           IF got = None THEN FALSE ELSE is_encrypted(got[1])],
                       fault)

\* Mutant: check consumes the payload when it answers, as retrieve does.
CheckExpiresConsuming(p) ==
    /\ pc[p] = "check_expires"
    /\ LET unix == StoredExpiry(store, loc[p].uuid[1], FALSE)
       IN  Return(p, GuardedDelete(store, loc[p].uuid[1], FALSE),
                  [build_response(200, "")
                     EXCEPT !.requires_password = Some(loc[p].requires_password),
                            !.expires_at = IF unix # None /\ unix[1] # 0
                                           THEN unix ELSE None],
                  FALSE)

\* _get_expiration_info and the response of _handle_check_secret.
CheckExpires(p) ==
    /\ pc[p] = "check_expires"
    /\ \E fault \in FaultChoices :
          LET unix == StoredExpiry(store, loc[p].uuid[1], fault)
          IN  Return(p, store,
                     [build_response(200, "")
                        EXCEPT !.requires_password = Some(loc[p].requires_password),
                               !.expires_at = IF unix # None /\ unix[1] # 0
                                              THEN unix ELSE None],
                     fault)

\* The response leaves; the invocation's state is gone.
Respond(p) ==
    /\ pc[p] = "done"
    /\ pc' = [pc EXCEPT ![p] = "idle"]
    /\ req' = [req EXCEPT ![p] = NoRequest]
    /\ loc' = [loc EXCEPT ![p] = NoLocals]
    /\ result' = [result EXCEPT ![p] = build_response(0, "")]
    /\ before' = [before EXCEPT ![p] = EmptyVault]
    /\ delivered' = IF result[p].secret # None /\ IsUuid(req[p].uuid[1])
                    THEN delivered \cup {req[p].uuid[1]} ELSE delivered
    /\ expired' = IF result[p].status = 410 /\ IsUuid(req[p].uuid[1])
                  THEN expired \cup {req[p].uuid[1]} ELSE expired
    /\ UNCHANGED scriptVars
    /\ UNCHANGED <<store, now, environ, active, faults, events, nextUuid, created>>

\* A second passes.
Tick ==
    /\ now < MaxTime
    /\ now' = now + 1
    /\ UNCHANGED scriptVars
    /\ UNCHANGED <<store, environ, active, faults, events, pc, req, loc, result,
                   nextUuid, created, delivered, expired, before>>

\* The values of SECRET_KEY: unset, the key of the deployment, another key.
Environs == {None, Some(SystemKey), Some("K2")}

\* SECRET_KEY is unset in the function's configuration, replaced, or set
\* again; an invocation reads the environment it was started with.
Configure ==
    /\ \A p \in Procs : pc[p] = "idle"
    /\ environ' \in Environs \ {environ}
    /\ UNCHANGED scriptVars
    /\ UNCHANGED <<store, now, active, faults, events, pc, req, loc, result,
                   nextUuid, created, delivered, expired, before>>

\* ---------------------------------------------- src/bundle_repo_secrets.py
\* The regions a grouping can hold, in the order sorted() gives them.
RegionNames == <<"E", "N", "W">>

\* The entries a region can have: one short value, one long value, two keys.
EntryChoices ==
    {[k \in {"ID"} |-> "a"],
     [k \in {"ID"} |-> "abcdefghij"],
     [k \in {"ID", "KEY"} |-> "a"]}

Groupings ==
    UNION {[S -> EntryChoices] : S \in SUBSET {RegionNames[i] : i \in DOMAIN RegionNames}}

\* --bundle-name, at its default.
BundleName == "AZURE_REGION_CONFIGS"

\* len(json.dumps(s)) of a string of ASCII characters that need no escape.
JsonStringLen(s) == Len(s) + 2

\* The commas of a JSON object of n members.
JsonCommas(n) == IF n = 0 THEN 0 ELSE n - 1

\* The members of the JSON object of a region's entries: "key":"value".
RECURSIVE JsonEntriesLen(_)
JsonEntriesLen(entries) ==
    IF DOMAIN entries = {} THEN 0
    ELSE LET k == CHOOSE k \in DOMAIN entries : TRUE
         IN  JsonStringLen(k) + 1 + JsonStringLen(entries[k])
             + JsonEntriesLen([x \in DOMAIN entries \ {k} |-> entries[x]])

\* The members of the JSON object of a shard: "region":{entries}.
RECURSIVE JsonRegionsLen(_)
JsonRegionsLen(obj) ==
    IF DOMAIN obj = {} THEN 0
    ELSE LET r == CHOOSE r \in DOMAIN obj : TRUE
         IN  JsonStringLen(r) + 1
             + 2 + JsonEntriesLen(obj[r]) + JsonCommas(Cardinality(DOMAIN obj[r]))
             + JsonRegionsLen([x \in DOMAIN obj \ {r} |-> obj[x]])

\* bytes_len: the bytes of json.dumps(obj, separators=(',', ':')).
bytes_len(obj) ==
    2 + JsonRegionsLen(obj) + JsonCommas(Cardinality(DOMAIN obj))

regions_sorted(g) == SelectSeq(RegionNames, LAMBDA r : r \in DOMAIN g)

\* f"{bundle_name}_{shard_index}"
ShardName(bundle_name, shard_index) == bundle_name \o "_" \o str(shard_index)

\* The loop of shard_payloads over the regions still to place; a shard is
\* its name and the object its payload is the JSON text of.
RECURSIVE PackRegions(_, _, _, _, _)
PackRegions(g, limit, bundle_name, todo, acc) ==
    IF todo = <<>> \/ acc.raised THEN acc
    ELSE LET r == Head(todo)
             tentative == [x \in DOMAIN acc.current \cup {r} |-> g[x]]
             alone == [x \in {r} |-> g[x]]
         IN  IF bytes_len(tentative) <= limit \/ DOMAIN acc.current = {}
             THEN PackRegions(g, limit, bundle_name, Tail(todo),
                              [acc EXCEPT !.current = tentative])
             ELSE PackRegions(g, limit, bundle_name, Tail(todo),
                              [shards |-> Append(acc.shards,
                                                 [name |-> ShardName(bundle_name,
                                                                     acc.shard_index),
                                                  payload |-> acc.current]),
                               current |-> alone,
                               shard_index |-> acc.shard_index + 1,
                               raised |-> bytes_len(alone) > limit])

\* shard_payloads: raised stands for its RuntimeError.
shard_payloads(g, limit, bundle_name) ==
    LET acc == PackRegions(g, limit, bundle_name, regions_sorted(g),
                           [shards |-> <<>>, current |-> <<>>, shard_index |-> 1,
                            raised |-> FALSE])
    IN  IF acc.raised THEN [raised |-> TRUE, shards |-> <<>>]
        ELSE [raised |-> FALSE,
              shards |-> IF DOMAIN acc.current = {} THEN acc.shards
                         ELSE Append(acc.shards,
                                     [name |-> IF acc.shard_index = 1
                                               THEN bundle_name
                                               ELSE ShardName(bundle_name,
                                                              acc.shard_index),
                                      payload |-> acc.current])]

\* main of bundle_repo_secrets.py calls shard_payloads on the grouping.
ShardPayloads ==
    /\ sharded = None
    /\ sharded' = Some(shard_payloads(grouped, max_bytes, BundleName))
    /\ UNCHANGED <<grouped, max_bytes>>
    /\ UNCHANGED <<lambdaVars, removeVars>>

\* The script has not been run.
NoBundle ==
    /\ grouped = <<>>
    /\ max_bytes = 0
    /\ sharded = None

\* ---------------------------------------------- src/remove_repo_secrets.py
\* Secret names, as sequences of characters, in the order sorted() gives
\* them: the bundle and one of its shards, and two per-item secrets.
SecretNames == << <<"B">>, <<"B", "1">>, <<"E", "I">>, <<"W", "I">> >>

NameSet == {SecretNames[i] : i \in DOMAIN SecretNames}

\* The values of --protect, split at the commas: none, the bundle and its
\* shards (the shape of the default), every per-item secret, everything.
PatternChoices ==
    {<<>>,
     << <<"B", "*">> >>,
     << <<"B", "*">>, <<"*", "I">> >>,
     << <<"*">> >>}

\* fnmatch.fnmatch for patterns of literal characters and "*".
RECURSIVE fnmatch(_, _)
fnmatch(name, pat) ==
    IF pat = <<>> THEN name = <<>>
    ELSE IF Head(pat) = "*"
    THEN \/ fnmatch(name, Tail(pat))
         \/ name # <<>> /\ fnmatch(Tail(name), pat)
    ELSE /\ name # <<>>
         /\ Head(name) = Head(pat)
         /\ fnmatch(Tail(name), Tail(pat))

\* Mutant: a pattern protects only the name equal to it.
ShouldProtectExact(name, patterns) ==
    \E i \in DOMAIN patterns : patterns[i] = name

should_protect(name, patterns) ==
    \E i \in DOMAIN patterns : fnmatch(name, patterns[i])

\* main up to its removal loop: the listing of the repository's secrets and
\* the selection of the names to remove, sorted and without duplicates.
ListAndSelect ==
    /\ to_remove = None
    /\ existing' = repo
    /\ to_remove' = Some(SelectSeq(SecretNames,
                           LAMBDA n : /\ \E i \in DOMAIN names : names[i] = n
                                      /\ ~should_protect(n, protect_patterns)
                                      /\ n \in repo))
    /\ UNCHANGED <<names, protect_patterns, dry_run, repo, commands>>
    /\ UNCHANGED <<lambdaVars, bundleVars>>

\* One turn of the removal loop: remove_secret for the next name.  With
\* --dry-run it only prints; otherwise it runs `gh secret remove`, which
\* removes the secret or fails.
RemoveSecret ==
    /\ to_remove # None
    /\ to_remove[1] # <<>>
    /\ LET n == Head(to_remove[1])
       IN  IF dry_run
           THEN UNCHANGED <<repo, commands>>
           ELSE /\ commands' = Append(commands, n)
                /\ \E ok \in BOOLEAN : repo' = IF ok THEN repo \ {n} ELSE repo
    /\ to_remove' = Some(Tail(to_remove[1]))
    /\ UNCHANGED <<names, protect_patterns, dry_run, existing>>
    /\ UNCHANGED <<lambdaVars, bundleVars>>

\* The script has not been run.
NoRemoval ==
    /\ names = <<>>
    /\ protect_patterns = <<>>
    /\ dry_run = FALSE
    /\ repo = {}
    /\ existing = {}
    /\ to_remove = None
    /\ commands = <<>>

\* ------------------------------------------------------- specifications
InitWith(concurrent, failures, sent) ==
    /\ store = EmptyVault
    /\ now = 1
    /\ environ = Some(SystemKey)
    /\ active = IF concurrent THEN Procs ELSE {"p1"}
    /\ faults = failures
    /\ events = sent
    /\ pc = [p \in Procs |-> "idle"]
    /\ req = [p \in Procs |-> NoRequest]
    /\ loc = [p \in Procs |-> NoLocals]
    /\ result = [p \in Procs |-> build_response(0, "")]
    /\ nextUuid = 1
    /\ created = [h \in Handles |-> None]
    /\ delivered = {}
    /\ expired = {}
    /\ before = [p \in Procs |-> EmptyVault]
    /\ NoBundle
    /\ NoRemoval

Step(p) ==
    \/ Invoke(p)
    \/ CreateStart(p)
    \/ SetPayload(p)
    \/ SetMetadata(p)
    \/ SetExpires(p)
    \/ Exists(p)
    \/ CheckExpiration(p)
    \/ DeletePayload(p)
    \/ DeleteMetadata(p)
    \/ DeleteExpires(p)
    \/ GetMetadata(p)
    \/ GetPayload(p)
    \/ CheckMetadata(p)
    \/ CheckPayload(p)
    \/ CheckExpires(p)
    \/ Respond(p)

Next == Tick \/ \E p \in Procs : Step(p)

\* One invocation at a time, a vault that never fails transiently.
Init == InitWith(FALSE, 0, AllEvents)
Spec == Init /\ [][Next]_vars

\* One invocation at a time, over a vault whose calls may fail transiently.
InitFaults == InitWith(FALSE, MaxFaults, CoreEvents)
SpecFaults == InitFaults /\ [][Next]_vars

\* Two invocations in flight, a vault that never fails transiently.
InitConcurrent == InitWith(TRUE, 0, RaceEvents)
SpecConcurrent == InitConcurrent /\ [][Next]_vars

\* One invocation at a time, over a vault that holds a legacy record, in a
\* deployment whose SECRET_KEY can be unset and set again.
NextDeployment == Next \/ Configure

InitLegacy(sent) ==
    /\ \E record \in LegacyRecords : store = LegacyVault(record)
    /\ now = 1
    /\ environ = Some(SystemKey)
    /\ active = {"p1"}
    /\ faults = 0
    /\ events = sent
    /\ pc = [p \in Procs |-> "idle"]
    /\ req = [p \in Procs |-> NoRequest]
    /\ loc = [p \in Procs |-> NoLocals]
    /\ result = [p \in Procs |-> build_response(0, "")]
    /\ nextUuid = 1
    /\ created = [h \in Handles |-> None]
    /\ delivered = {}
    /\ expired = {}
    /\ before = [p \in Procs |-> EmptyVault]
    /\ NoBundle
    /\ NoRemoval

InitDeployment == InitLegacy(DeploymentEvents)
SpecDeployment == InitDeployment /\ [][NextDeployment]_vars

\* One invocation at a time, among events that the gates of lambda_handler
\* answer themselves, over a vault that holds a legacy record.
InitGate == InitLegacy(DeploymentEvents \cup GateEvents)
SpecGate == InitGate /\ [][Next]_vars

\* The service at rest, as the scripts find it: they do not touch it.
NoLambda ==
    /\ store = EmptyVault
    /\ now = 1
    /\ environ = Some(SystemKey)
    /\ active = {}
    /\ faults = 0
    /\ events = {}
    /\ pc = [p \in Procs |-> "idle"]
    /\ req = [p \in Procs |-> NoRequest]
    /\ loc = [p \in Procs |-> NoLocals]
    /\ result = [p \in Procs |-> build_response(0, "")]
    /\ nextUuid = 1
    /\ created = [h \in Handles |-> None]
    /\ delivered = {}
    /\ expired = {}
    /\ before = [p \in Procs |-> EmptyVault]

\* bundle_repo_secrets.py run once on a grouping and a --max-bytes.
InitBundle ==
    /\ NoLambda
    /\ NoRemoval
    /\ grouped \in Groupings
    /\ max_bytes \in 0..MaxBytes
    /\ sharded = None

NextBundle == ShardPayloads

SpecBundle == InitBundle /\ [][NextBundle]_vars

\* remove_repo_secrets.py run once on an input of one to MaxNames names, a
\* --protect, with or without --dry-run, on a repository with some secrets.
InitRemove ==
    /\ NoLambda
    /\ NoBundle
    /\ names \in UNION {[1..n -> NameSet] : n \in 1..MaxNames}
    /\ protect_patterns \in PatternChoices
    /\ dry_run \in BOOLEAN
    /\ repo \in SUBSET NameSet
    /\ existing = {}
    /\ to_remove = None
    /\ commands = <<>>

NextRemove == ListAndSelect \/ RemoveSecret

SpecRemove == InitRemove /\ [][NextRemove]_vars

\* ----------------------------------------------------------------- claims
Served(p) == pc[p] = "done"

Names(p, h) == req[p].uuid = Some(Uuid(h))

\* What create was given for handle h (once created[h] is set).
Given(h) == created[h][1]

Plaintext(h) == Some(Text(Given(h).secret))

\* The vault holds the record of h as create wrote it.
Intact(vault, h) ==
    /\ created[h] # None
    /\ LET layers == _encrypt_secret_layers(Text(Given(h).secret),
                                            Given(h).password, Some(SystemKey))
       IN  /\ get_secret(vault, Uuid(h)) = layers.value
           /\ get_secret(vault, MetadataKey(Uuid(h))) = Some(Text(layers.type[1]))
    /\ get_secret(vault, ExpiresKey(Uuid(h))) =
          IF Given(h).unix = None THEN None
          ELSE Some(Text(str(Given(h).unix[1])))

\* No key of the record of h is in the vault.
Gone(vault, h) ==
    /\ ~secret_exists(vault, Uuid(h))
    /\ ~secret_exists(vault, MetadataKey(Uuid(h)))
    /\ ~secret_exists(vault, ExpiresKey(Uuid(h)))

\* The record of h has no expiry, or the clock has not reached it.
NotYetExpired(h) == Given(h).unix = None \/ now < Given(h).unix[1]

\* C1: for a handle created without expiration, in a sequential run over a
\* vault that does not fail, a retrieve that returns a secret returns the
\* plaintext given to create and is the first to do so, and every retrieve
\* or check answered after it is answered NotFound (404) without a secret.
ExactlyOnce ==
    \A p \in Procs, h \in Handles :
        (/\ Served(p)
         /\ req[p].action \in {"retrieve", "check"}
         /\ Names(p, h)
         /\ created[h] # None
         /\ Given(h).unix = None)
        => /\ result[p].secret # None
                => /\ result[p].secret = Plaintext(h)
                   /\ result[p].status = 200
                   /\ Uuid(h) \notin delivered
           /\ Uuid(h) \in delivered
                => /\ result[p].status = 404
                   /\ result[p].secret = None

ExactlyOnceWitness ==
    \E p \in Procs, h \in Handles :
        /\ Served(p)
        /\ req[p].action = "retrieve"
        /\ Names(p, h)
        /\ created[h] # None
        /\ Given(h).unix = None
        /\ Uuid(h) \in delivered
        /\ result[p].status = 404

\* C2: create(p, q) followed by retrieve(handle, q) on the record as written
\* and not expired returns p, for every password q, absent and empty
\* included.
RoundTrip ==
    \A p \in Procs, h \in Handles :
        (/\ Served(p)
         /\ req[p].action = "retrieve"
         /\ Names(p, h)
         /\ Intact(before[p], h)
         /\ req[p].password = Given(h).password
         /\ NotYetExpired(h))
        => /\ result[p].status = 200
           /\ result[p].secret = Plaintext(h)

RoundTripWitness ==
    \E p \in Procs, h \in Handles :
        /\ Served(p)
        /\ req[p].action = "retrieve"
        /\ Names(p, h)
        /\ Intact(before[p], h)
        /\ req[p].password = Some("pw")
        /\ Given(h).password = Some("pw")
        /\ result[p].secret = Plaintext(h)

\* C3: on a record created with a non-empty password, a retrieve without a
\* password is answered PasswordRequired (400) and one with a wrong password
\* DecryptionError (400), both leaving the vault as it was; a retrieve with
\* the password returns the plaintext and removes the record, and the handle
\* is NotFound from then on.
PasswordGating ==
    \A p \in Procs, h \in Handles :
        /\ (/\ Served(p)
            /\ req[p].action = "retrieve"
            /\ Names(p, h)
            /\ Intact(before[p], h)
            /\ Truthy(Given(h).password)
            /\ NotYetExpired(h))
           => IF ~Truthy(req[p].password)
              THEN /\ result[p].status = 400
                   /\ result[p].error = "Password required for encrypted secret"
                   /\ store = before[p]
              ELSE IF req[p].password # Given(h).password
              THEN /\ result[p].status = 400
                   /\ result[p].error = "Decryption failed"
                   /\ store = before[p]
              ELSE /\ result[p].status = 200
                   /\ result[p].secret = Plaintext(h)
                   /\ Gone(store, h)
        /\ (/\ Served(p)
            /\ req[p].action \in {"retrieve", "check"}
            /\ Names(p, h)
            /\ created[h] # None
            /\ Truthy(Given(h).password)
            /\ Uuid(h) \in delivered)
           => result[p].status = 404

PasswordGatingWitness ==
    \E p \in Procs, h \in Handles :
        /\ Served(p)
        /\ req[p].action = "retrieve"
        /\ Names(p, h)
        /\ Intact(before[p], h)
        /\ Given(h).password = Some("pw")
        /\ req[p].password = Some("bad")
        /\ result[p].error = "Decryption failed"
        /\ Intact(store, h)

\* C4: a retrieve invoked on an existing handle whose stored expiry is at or
\* before the current time, and that has passed the existence check, is
\* answered Expired (410) with the expiry instant and without the secret,
\* also when a vault call of the expiration check fails.
ExpiredNeverDisclosed ==
    \A p \in Procs, h \in Handles :
        LET stored == StoredExpiry(before[p], Uuid(h), FALSE)
        IN  (/\ Served(p)
             /\ req[p].action = "retrieve"
             /\ Names(p, h)
             /\ loc[p].uuid # None
             /\ stored # None
             /\ req[p].late)
            => /\ result[p].status = 410
               /\ result[p].expired_at = stored
               /\ result[p].secret = None

\* C5: for a record created with expires_at = T, in a sequential run over a
\* vault that does not fail: a check or retrieve answered while now < T is
\* answered as for a live record; the first one invoked at now >= T is
\* answered Expired (410) with T and leaves no key of the record; every one
\* after that is answered NotFound (404), so Expired is reported once.
ExpirationSequence ==
    \A p \in Procs, h \in Handles :
        (/\ Served(p)
         /\ req[p].action \in {"retrieve", "check"}
         /\ Names(p, h)
         /\ created[h] # None
         /\ Given(h).unix # None)
        => /\ (Intact(before[p], h) /\ now < Given(h).unix[1])
                => IF req[p].action = "check" THEN result[p].status = 200
                   ELSE /\ result[p].status \in {200, 400}
                        /\ result[p].status = 200
                             => result[p].secret = Plaintext(h)
           /\ (Intact(before[p], h) /\ req[p].late)
                => /\ result[p].status = 410
                   /\ result[p].expired_at = Given(h).unix
                   /\ result[p].secret = None
                   /\ Gone(store, h)
           /\ Uuid(h) \in expired => result[p].status = 404
           /\ result[p].status = 410 => Uuid(h) \notin expired

ExpirationSequenceWitness ==
    \E p \in Procs, h \in Handles :
        /\ Served(p)
        /\ req[p].action \in {"retrieve", "check"}
        /\ Names(p, h)
        /\ created[h] # None
        /\ Given(h).unix # None
        /\ Uuid(h) \in expired
        /\ result[p].status = 404

\* Both invocations have read and decrypted the payload of h and been served.
BothDecrypted(p, q, h) ==
    /\ p # q
    /\ \A r \in {p, q} :
          /\ Served(r)
          /\ req[r].action = "retrieve"
          /\ Names(r, h)
          /\ loc[r].within = "_handle_retrieve_secret"
          /\ loc[r].value # None

\* C6, as claimed: two concurrent retrieves of a live handle that both pass
\* the existence check before either deletes, and both read and decrypt the
\* payload, both return the plaintext.
RetrieveRaceBothReturn ==
    \A p \in Procs, q \in Procs, h \in Handles :
        BothDecrypted(p, q, h)
        => /\ result[p].secret = Plaintext(h)
           /\ result[q].secret = Plaintext(h)

\* C6, amended: two concurrent retrieves of a live handle can both pass the
\* existence check and both read and decrypt the payload, but only the one
\* whose delete of the payload succeeds returns the plaintext; the other's
\* delete fails on the absent key and it is answered 500 without the secret.
\* No secret is returned twice.
RetrieveRaceOneReturns ==
    \A p \in Procs, h \in Handles :
        /\ (Served(p) /\ Names(p, h) /\ result[p].secret # None)
           => /\ Uuid(h) \notin delivered
              /\ ~secret_exists(store, Uuid(h))
              /\ \A q \in Procs \ {p} :
                    ~(Served(q) /\ Names(q, h) /\ result[q].secret # None)
        /\ \A q \in Procs :
              BothDecrypted(p, q, h)
              => \E w \in {p, q} :
                    /\ result[w].status = 200
                    /\ result[w].secret = Plaintext(h)
                    /\ \A l \in {p, q} \ {w} :
                          /\ result[l].status = 500
                          /\ result[l].secret = None

RetrieveRaceWitness ==
    \E p \in Procs, q \in Procs, h \in Handles :
        /\ BothDecrypted(p, q, h)
        /\ result[p].secret = Plaintext(h)
        /\ result[q].status = 500

\* C7: a create whose expires_at is given and is not an integer, or is an
\* instant not after the call time, is answered ValidationError (400),
\* writes nothing and returns no handle.
InvalidExpiryRejected ==
    \A p \in Procs :
        (/\ Served(p)
         /\ req[p].action = "create"
         /\ req[p].expires_at # None
         /\ (Denoted(req[p].expires_at) = None \/ req[p].late))
        => /\ result[p].status = 400
           /\ result[p].uuid = None
           /\ store = before[p]

\* C8: a create whose secret is absent or empty is answered ValidationError
\* (400), and a create answered ValidationError has written nothing: the
\* vault is as it was when the create was invoked.
ValidationWritesNothing ==
    \A p \in Procs :
        (Served(p) /\ req[p].action = "create")
        => /\ req[p].secret \in {None, Some("")} => result[p].status = 400
           /\ result[p].status = 400
                => /\ store = before[p]
                   /\ result[p].uuid = None

ValidationWritesNothingWitness ==
    \E p \in Procs :
        /\ Served(p)
        /\ req[p].action = "create"
        /\ req[p].secret = Some("")
        /\ result[p].status = 400
        /\ store = before[p]

\* C10: a check of the record as create wrote it, not expired, is answered
\* 200 with requires_password true iff create was given a non-empty password,
\* and with expires_at iff the record has one.
CheckReportsRequirement ==
    \A p \in Procs, h \in Handles :
        (/\ Served(p)
         /\ req[p].action = "check"
         /\ Names(p, h)
         /\ Intact(before[p], h)
         /\ NotYetExpired(h))
        => /\ result[p].status = 200
           /\ result[p].requires_password = Some(Truthy(Given(h).password))
           /\ result[p].expires_at = Given(h).unix

CheckReportsRequirementWitness ==
    \E p \in Procs, h \in Handles :
        /\ Served(p)
        /\ req[p].action = "check"
        /\ Names(p, h)
        /\ Intact(before[p], h)
        /\ Given(h).password = Some("pw")
        /\ Given(h).unix # None
        /\ result[p].requires_password = Some(TRUE)
        /\ result[p].expires_at = Given(h).unix

\* C11: a check of an existing record that has not expired writes and
\* deletes nothing: it is answered 200 without a secret, the vault is as it
\* was when the check was invoked, and the record is still the one create
\* wrote, which a retrieve with the password of create decrypts to the
\* plaintext.
CheckReadOnly ==
    \A p \in Procs, h \in Handles :
        (/\ Served(p)
         /\ req[p].action = "check"
         /\ Names(p, h)
         /\ Intact(before[p], h)
         /\ NotYetExpired(h))
        => /\ result[p].status = 200
           /\ result[p].secret = None
           /\ store = before[p]
           /\ _decrypt_secret_layers(store[Uuid(h)],
                                     get_secret(store, MetadataKey(Uuid(h))),
                                     Given(h).password, environ).value
                 = Plaintext(h)

CheckReadOnlyWitness ==
    \E p \in Procs, h \in Handles :
        /\ Served(p)
        /\ req[p].action = "check"
        /\ Names(p, h)
        /\ Intact(before[p], h)
        /\ NotYetExpired(h)
        /\ Given(h).password = None
        /\ result[p].status = 200
        /\ Intact(store, h)

\* C12: a retrieve of a record as create wrote it (tag secret_key_encrypted
\* or secret_key_password_encrypted), not expired, while SECRET_KEY is unset
\* is answered 500 "System decryption failed" and leaves the three keys as
\* they were; with SECRET_KEY set again, the retrieve with the password of
\* create returns the plaintext.
SystemKeyFaultNonDestructive ==
    \A p \in Procs, h \in Handles :
        (/\ Served(p)
         /\ req[p].action = "retrieve"
         /\ Names(p, h)
         /\ Intact(before[p], h)
         /\ NotYetExpired(h))
        => IF environ = None
           THEN /\ result[p].status = 500
                /\ result[p].error = "System decryption failed"
                /\ result[p].secret = None
                /\ store = before[p]
                /\ Intact(store, h)
           ELSE (environ = Some(SystemKey) /\ req[p].password = Given(h).password)
                => /\ result[p].status = 200
                   /\ result[p].secret = Plaintext(h)

SystemKeyFaultNonDestructiveWitness ==
    \E p \in Procs, h \in Handles :
        /\ Served(p)
        /\ req[p].action = "retrieve"
        /\ Names(p, h)
        /\ Intact(before[p], h)
        /\ Given(h).password = Some("pw")
        /\ req[p].password = Some("pw")
        /\ environ = None
        /\ result[p].status = 500
        /\ Intact(store, h)

\* The legacy record the vault held when p was invoked.
LegacyPayload(p) == before[p][LegacyUuid]

LegacyTag(p) == get_secret(before[p], MetadataKey(LegacyUuid))

\* C13: a retrieve of a legacy record tagged "plaintext", or without tag and
\* with a payload that is_encrypted denies, returns the payload unchanged,
\* with or without password; of one tagged "encrypted" it is answered
\* PasswordRequired (400) without a password and returns the payload
\* decrypted with the password alone, whether SECRET_KEY is set or not.
LegacyCompatibility ==
    \A p \in Procs :
        (/\ Served(p)
         /\ req[p].action = "retrieve"
         /\ req[p].uuid = Some(LegacyUuid)
         /\ secret_exists(before[p], LegacyUuid))
        => /\ (\/ LegacyTag(p) = Some(Text("plaintext"))
               \/ LegacyTag(p) = None /\ ~is_encrypted(LegacyPayload(p)))
              => /\ result[p].status = 200
                 /\ result[p].secret = Some(LegacyPayload(p))
           /\ LegacyTag(p) = Some(Text("encrypted"))
              => IF ~Truthy(req[p].password)
                 THEN /\ result[p].status = 400
                      /\ result[p].error = "Password required for encrypted secret"
                      /\ store = before[p]
                 ELSE IF decrypt_secret(LegacyPayload(p), req[p].password[1]) = None
                 THEN /\ result[p].status = 400
                      /\ result[p].error = "Decryption failed"
                      /\ store = before[p]
                 ELSE /\ result[p].status = 200
                      /\ result[p].secret =
                            decrypt_secret(LegacyPayload(p), req[p].password[1])

LegacyCompatibilityWitness ==
    \E p \in Procs :
        /\ Served(p)
        /\ req[p].action = "retrieve"
        /\ req[p].uuid = Some(LegacyUuid)
        /\ secret_exists(before[p], LegacyUuid)
        /\ LegacyTag(p) = Some(Text("encrypted"))
        /\ environ = None
        /\ result[p].status = 200
        /\ result[p].secret = Some(Text("old"))

\* A vault call of the invocation p has failed transiently.
StoreCallFailed(p) == faults < req[p].budget

\* C14: an operation one of whose vault calls failed transiently is answered
\* with a system error (500).
StoreFailuresSurface ==
    \A p \in Procs :
        (Served(p) /\ StoreCallFailed(p)) => result[p].status = 500

\* No key of the record named name is in the vault.
Removed(vault, name) ==
    /\ ~secret_exists(vault, name)
    /\ ~secret_exists(vault, MetadataKey(name))
    /\ ~secret_exists(vault, ExpiresKey(name))

\* The invocation p has gone through _delete_secret_and_metadata.
Deleting(p) == loc[p].within # ""

\* C15: over a vault whose deletes fail only on an absent key, after a
\* retrieve answered 200 and after a check or retrieve answered Expired (410)
\* none of the three keys of the name remains; and an operation that deletes
\* a record whose -metadata or -expires key is absent does not fail: it is
\* answered 200 or 410.
DeletionRemovesRecord ==
    \A p \in Procs :
        (/\ Served(p)
         /\ req[p].action \in {"retrieve", "check"}
         /\ Truthy(req[p].uuid))
        => LET name == req[p].uuid[1]
           IN  /\ (\/ result[p].status = 410
                   \/ req[p].action = "retrieve" /\ result[p].status = 200)
                  => Removed(store, name)
               /\ (/\ Deleting(p)
                   /\ \/ ~secret_exists(before[p], MetadataKey(name))
                      \/ ~secret_exists(before[p], ExpiresKey(name)))
                  => /\ result[p].status \in {200, 410}
                     /\ Removed(store, name)

DeletionRemovesRecordWitness ==
    \E p \in Procs, h \in Handles :
        /\ Served(p)
        /\ Names(p, h)
        /\ secret_exists(before[p], Uuid(h))
        /\ ~secret_exists(before[p], MetadataKey(Uuid(h)))
        /\ secret_exists(before[p], ExpiresKey(Uuid(h)))
        /\ Deleting(p)
        /\ result[p].status = 410
        /\ Removed(store, Uuid(h))

\* The payload and the tag of a record of plaintext s with password q,
\* written out layer by layer.
StatedPayload(s, q) ==
    IF Truthy(q)
    THEN <<"enc", SystemKey, <<"enc", q[1], Text(s)>>>>
    ELSE <<"enc", SystemKey, Text(s)>>

StatedTag(q) ==
    IF Truthy(q) THEN Text("secret_key_password_encrypted")
    ELSE Text("secret_key_encrypted")

\* C16: every payload that create has written is the encryption under
\* SECRET_KEY of the plaintext (no or empty password) or of the plaintext
\* encrypted under the password, the SECRET_KEY layer outermost; the tag
\* next to it is secret_key_password_encrypted iff the password is non-empty,
\* secret_key_encrypted otherwise; and a create answered 201 has written
\* both.
EncodingOfNewWrites ==
    /\ \A h \in Handles :
          created[h] # None
          => /\ secret_exists(store, Uuid(h))
                => /\ store[Uuid(h)] =
                         StatedPayload(Given(h).secret, Given(h).password)
                   /\ is_encrypted(store[Uuid(h)])
                   /\ decrypt_secret(store[Uuid(h)], SystemKey) # None
             /\ secret_exists(store, MetadataKey(Uuid(h)))
                => store[MetadataKey(Uuid(h))] = StatedTag(Given(h).password)
    /\ \A p \in Procs :
          (Served(p) /\ req[p].action = "create" /\ result[p].status = 201)
          => /\ result[p].uuid # None
             /\ secret_exists(store, result[p].uuid[1])
             /\ secret_exists(store, MetadataKey(result[p].uuid[1]))

EncodingOfNewWritesWitness ==
    \E p \in Procs, h \in Handles :
        /\ Served(p)
        /\ req[p].action = "create"
        /\ req[p].password = Some("pw")
        /\ result[p].status = 201
        /\ result[p].uuid = Some(Uuid(h))
        /\ store[Uuid(h)] = StatedPayload("s1", Some("pw"))
        /\ store[MetadataKey(Uuid(h))] = Text("secret_key_password_encrypted")

\* The keys present in both vaults hold the same values.
SameValues(vault, other) ==
    \A k \in DOMAIN vault \cap DOMAIN other : vault[k] = other[k]

\* C17: no operation changes the value stored under a key; a key is removed
\* only by a retrieve whose decryption succeeded (200) or by a check or
\* retrieve that found the record expired (410); an operation answered
\* NotFound (404), PasswordRequired, DecryptionError or ValidationError
\* (400), SystemConfigurationError (500), or a check answered 200, leaves
\* the vault as it was.
RecordsImmutable ==
    \A p \in Procs :
        Served(p)
        => /\ SameValues(store, before[p])
           /\ req[p].action \in {"retrieve", "check"}
              => DOMAIN store \subseteq DOMAIN before[p]
           /\ ~(DOMAIN before[p] \subseteq DOMAIN store)
              => \/ /\ req[p].action = "retrieve"
                    /\ result[p].status = 200
                    /\ loc[p].value # None
                 \/ /\ req[p].action \in {"retrieve", "check"}
                    /\ result[p].status = 410
           /\ (\/ result[p].status \in {400, 404}
               \/ result[p].error \in {"System decryption failed",
                                       "System encryption failed"}
               \/ req[p].action = "check" /\ result[p].status = 200)
              => store = before[p]

RecordsImmutableWitness ==
    \E p \in Procs, h \in Handles :
        /\ Served(p)
        /\ req[p].action = "retrieve"
        /\ Names(p, h)
        /\ Intact(before[p], h)
        /\ result[p].status = 500
        /\ result[p].error = "System decryption failed"
        /\ store = before[p]

\* C18: a value stored under the -expires key of a handle is the decimal
\* string of the integer that create validated, which was after the clock
\* when it was validated; the value is never anything else while the key
\* exists, and the expiration check parses it back to that integer.
StoredExpiryInvariant ==
    \A h \in Handles :
        (created[h] # None /\ secret_exists(store, ExpiresKey(Uuid(h))))
        => /\ Given(h).unix # None
           /\ Given(h).future
           /\ store[ExpiresKey(Uuid(h))] = Text(str(Given(h).unix[1]))
           /\ StoredExpiry(store, Uuid(h), FALSE) = Given(h).unix

StoredExpiryInvariantWitness ==
    \E h \in Handles :
        /\ created[h] # None
        /\ secret_exists(store, ExpiresKey(Uuid(h)))
        /\ store[ExpiresKey(Uuid(h))] = Text(str(MaxTime))
        /\ now = MaxTime
        /\ \A p \in Procs : pc[p] = "idle"

\* C19: a create is answered 201 with a handle only when the payload, the
\* tag and, for a valid expires_at, the expiry have been written, none of
\* the writes having failed: the handle's payload and -metadata keys are
\* present, -expires is present iff create validated an expiry.  A create
\* one of whose writes failed is answered 500 without a handle.
HandleOnlyForCompleteRecord ==
    \A p \in Procs :
        (Served(p) /\ req[p].action = "create")
        => /\ result[p].uuid # None => result[p].status = 201
           /\ StoreCallFailed(p)
              => /\ result[p].status = 500
                 /\ result[p].uuid = None
           /\ result[p].status = 201
              => /\ result[p].uuid = loc[p].uuid
                 /\ result[p].uuid # None
                 /\ get_secret(store, loc[p].uuid[1]) = loc[p].value
                 /\ get_secret(store, MetadataKey(loc[p].uuid[1]))
                       = Some(Text(loc[p].type[1]))
                 /\ get_secret(store, ExpiresKey(loc[p].uuid[1]))
                       = IF loc[p].unix = None THEN None
                         ELSE Some(Text(str(loc[p].unix[1])))
                 /\ result[p].expires_at = loc[p].unix

HandleOnlyForCompleteRecordWitness ==
    \E p \in Procs :
        /\ Served(p)
        /\ req[p].action = "create"
        /\ StoreCallFailed(p)
        /\ secret_exists(store, Uuid(1))
        /\ ~secret_exists(store, MetadataKey(Uuid(1)))
        /\ result[p].status = 500
        /\ result[p].uuid = None

\* No create is between its writes.
NoCreateInProgress ==
    \A p \in Procs : pc[p] \notin {"set_payload", "set_metadata", "set_expires"}

\* C20: the payload key is the first key of a record to go: whenever the
\* payload of a record that create completed is in the vault, so are its
\* -metadata key and, for a record with expiry, its -expires key; and once
\* the payload is gone, a retrieve or check of the handle is answered
\* NotFound (404) and no operation on the handle's names returns a secret.
OrphansHarmless ==
    \A h \in Handles :
        (created[h] # None /\ NoCreateInProgress)
        => /\ secret_exists(store, Uuid(h))
              => /\ secret_exists(store, MetadataKey(Uuid(h)))
                 /\ Given(h).unix # None
                    => secret_exists(store, ExpiresKey(Uuid(h)))
           /\ \A p \in Procs :
                 (/\ Served(p)
                  /\ req[p].action \in {"retrieve", "check"}
                  /\ ~secret_exists(before[p], Uuid(h)))
                 => /\ Names(p, h) => result[p].status = 404
                    /\ req[p].uuid \in {Some(Uuid(h)),
                                        Some(MetadataKey(Uuid(h))),
                                        Some(ExpiresKey(Uuid(h)))}
                       => result[p].secret = None

\* C21: a retrieve of a stored, unexpired record written with the system-key
\* layer fails non-destructively in two distinguishable ways: with SECRET_KEY
\* absent it is answered 500 (SystemConfigurationError), with SECRET_KEY
\* present but not the key the record was written with (the integrity check
\* of the system-key layer fails) it is answered 400 (DecryptionError); in
\* both cases the record stays as it was.
SystemLayerClassification ==
    \A p \in Procs, h \in Handles :
        (/\ Served(p)
         /\ req[p].action = "retrieve"
         /\ Names(p, h)
         /\ Intact(before[p], h)
         /\ NotYetExpired(h)
         /\ environ # Some(SystemKey))
        => /\ result[p].status = (IF environ = None THEN 500 ELSE 400)
           /\ result[p].secret = None
           /\ store = before[p]

\* C22: a retrieve answers with a secret only with status 200 and only after
\* its own delete of the payload key succeeded, so the payload key is absent
\* from the vault when it answers; a retrieve that decrypted the payload and
\* whose delete of it failed answers 500 without a secret.
DisclosureAfterDestruction ==
    \A p \in Procs :
        (Served(p) /\ req[p].action = "retrieve")
        => /\ result[p].secret # None
              => /\ result[p].status = 200
                 /\ loc[p].within = "_handle_retrieve_secret"
                 /\ result[p].secret = loc[p].value
                 /\ ~secret_exists(store, loc[p].uuid[1])
           /\ (/\ loc[p].within = "_handle_retrieve_secret"
               /\ secret_exists(store, loc[p].uuid[1]))
              => /\ result[p].status = 500
                 /\ result[p].secret = None

\* A retrieve decrypted the payload, its delete of the payload failed, and
\* it answered 500 with the payload still stored.
DisclosureAfterDestructionWitness ==
    \E p \in Procs :
        /\ Served(p)
        /\ req[p].action = "retrieve"
        /\ loc[p].within = "_handle_retrieve_secret"
        /\ loc[p].value # None
        /\ StoreCallFailed(p)
        /\ secret_exists(store, loc[p].uuid[1])
        /\ result[p].status = 500

\* C23: when check and retrieve invocations run concurrently on a handle
\* whose stored expiry was at or before the clock when each of them arrived,
\* none of them answers with the plaintext or with a successful check (200),
\* at most one of them answers 410, and each of the others answers 404 or
\* 500.
ExpiredRace ==
    \A p \in Procs, h \in Handles :
        (/\ Served(p)
         /\ req[p].action \in {"retrieve", "check"}
         /\ Names(p, h)
         /\ req[p].late)
        => /\ result[p].secret = None
           /\ result[p].status \in {410, 404, 500}
           /\ \A q \in Procs \ {p} :
                 (/\ Served(q)
                  /\ req[q].action \in {"retrieve", "check"}
                  /\ Names(q, h)
                  /\ req[q].late)
                 => ~(result[p].status = 410 /\ result[q].status = 410)

\* C24: create encrypts before it writes: a create served while SECRET_KEY
\* is unset returns no handle and leaves the vault as it found it, and when
\* its fields are valid its answer is 500 "System encryption failed".
EncryptBeforeWrite ==
    \A p \in Procs :
        (Served(p) /\ req[p].action = "create" /\ environ = None)
        => /\ result[p].uuid = None
           /\ result[p].status \in {400, 500}
           /\ store = before[p]
           /\ (~MissingSecret(req[p].secret) /\ req[p].expires_at = None)
              => /\ result[p].status = 500
                 /\ result[p].error = "System encryption failed"

\* A valid create was refused with 500 while SECRET_KEY was unset, and the
\* vault, which holds a record, is as the create found it.
EncryptBeforeWriteWitness ==
    \E p \in Procs :
        /\ Served(p)
        /\ req[p].action = "create"
        /\ environ = None
        /\ req[p].secret = Some("s1")
        /\ req[p].password # None
        /\ result[p].status = 500
        /\ result[p].error = "System encryption failed"
        /\ store = before[p]
        /\ store # EmptyVault

\* The request of p was stopped by a gate of lambda_handler: the vault is as
\* it was when the request arrived and no step of a handler was taken.
Refused(p, status) ==
    /\ result[p].status = status
    /\ result[p].secret = None
    /\ result[p].uuid = None
    /\ store = before[p]
    /\ loc[p] = NoLocals

\* C25: an invocation takes a step on the vault only when its action is
\* create, retrieve or check and its Turnstile token is present and valid;
\* a missing or unknown action is answered 400, a missing token 400 and an
\* invalid token 403, each with the vault unchanged; healthcheck is answered
\* 200 without a token and without a step on the vault.
GatingOrder ==
    \A p \in Procs :
        /\ pc[p] \notin {"idle", "done"}
           => /\ req[p].action \in {"create", "retrieve", "check"}
              /\ Truthy(req[p].turnstile_token)
              /\ validate_turnstile(req[p].turnstile_token[1])
        /\ (Served(p) /\ req[p].method = "POST")
           => IF req[p].action = "healthcheck" THEN Refused(p, 200)
              ELSE IF req[p].action \notin {"create", "retrieve", "check"}
              THEN Refused(p, 400)
              ELSE IF ~Truthy(req[p].turnstile_token) THEN Refused(p, 400)
              ELSE IF ~validate_turnstile(req[p].turnstile_token[1])
              THEN Refused(p, 403)
              ELSE TRUE

\* A retrieve of a stored record with a token that Turnstile rejects was
\* answered 403 and the record is still stored.
GatingOrderWitness ==
    \E p \in Procs, h \in Handles :
        /\ Served(p)
        /\ req[p].action = "retrieve"
        /\ Names(p, h)
        /\ req[p].turnstile_token = Some("bad")
        /\ result[p].status = 403
        /\ Intact(store, h)

\* The regions of a shard.
ShardRegions(shard) == DOMAIN shard.payload

\* C26: for every grouping and every max_bytes, shard_payloads either
\* raises or returns shards such that the JSON payload of every shard is at
\* most max_bytes long, every region of the grouping is in exactly one
\* shard with its entries unchanged, and the shards are named bundle_name
\* when there is one and bundle_name_1 .. bundle_name_N when there are N.
ShardsWithinLimit ==
    (sharded # None /\ ~sharded[1].raised)
    => LET shards == sharded[1].shards
       IN  /\ \A i \in DOMAIN shards : bytes_len(shards[i].payload) <= max_bytes
           /\ \A r \in DOMAIN grouped :
                 /\ \E i \in DOMAIN shards : r \in ShardRegions(shards[i])
                 /\ \A i, j \in DOMAIN shards :
                       (r \in ShardRegions(shards[i]) /\ r \in ShardRegions(shards[j]))
                       => i = j
           /\ \A i \in DOMAIN shards :
                 \A r \in ShardRegions(shards[i]) :
                    r \in DOMAIN grouped /\ shards[i].payload[r] = grouped[r]
           /\ Len(shards) = 1 => shards[1].name = BundleName
           /\ Len(shards) > 1
              => \A i \in DOMAIN shards :
                    shards[i].name = BundleName \o "_" \o str(i)

\* C27: remove_repo_secrets runs the removal command only for names that
\* are in the input, were listed as existing and match no protect pattern,
\* and for each name at most once; with --dry-run it runs no removal
\* command and the repository keeps its secrets.
RemovalScope ==
    /\ \A i \in DOMAIN commands :
          /\ \E k \in DOMAIN names : names[k] = commands[i]
          /\ commands[i] \in existing
          /\ ~\E k \in DOMAIN protect_patterns :
                 fnmatch(commands[i], protect_patterns[k])
          /\ \A j \in DOMAIN commands : commands[j] = commands[i] => j = i
    /\ (dry_run /\ to_remove # None) => (commands = <<>> /\ repo = existing)

\* The run is over: the input named a removable secret twice, next to a
\* protected secret that exists, and the command was run once, for the
\* former.
RemovalScopeWitness ==
    /\ to_remove = Some(<<>>)
    /\ ~dry_run
    /\ names = << <<"E", "I">>, <<"E", "I">> >>
    /\ protect_patterns = << <<"B", "*">> >>
    /\ <<"B", "1">> \in existing
    /\ commands = << <<"E", "I">> >>
    /\ <<"E", "I">> \notin repo

====
